---- MODULE Spec2Model ----
(***************************************************************************)
(* mini-tokio (src/mini-tokio/src/main.rs): a wake-driven executor         *)
(* (MiniTokio, Task) and one suspension source, Delay, whose first poll    *)
(* spawns a timer thread that sleeps until the deadline and then wakes     *)
(* the stored Waker.                                                       *)
(*                                                                         *)
(* Threads of the model: the executor thread (MiniTokio::run, which calls  *)
(* Task::poll, which polls the task's async block, which polls its Delay), *)
(* one timer thread per armed Delay, and a clock.  A Task-bound Waker is   *)
(* identified by the task it enqueues (Waker::will_wake compares exactly   *)
(* that), so a handle is a task id.  A Delay owned by a task's async block *)
(* carries that task's id; a bare Delay, advanced directly by a caller,    *)
(* has an id of its own.                                                   *)
(***************************************************************************)
EXTENDS Integers, Sequences, FiniteSets

\* Bounds of the model.
MaxTasks == 2        \* computations submitted through MiniTokio::spawn
MaxTime == 1         \* the clock runs 0..MaxTime; deadlines lie in 0..MaxTime
MaxExtraWakes == 2   \* wake() calls made by threads other than timer threads
MaxWoken == 1        \* tasks submitted where other threads call wake() too
MaxBare == 1         \* bare Delays a caller advances directly

Ids == 1..MaxTasks
Instants == 0..MaxTime
None == 0            \* Option::None: no waker stored, no task in hand
Never == 0 - 1       \* an instant that has not been recorded yet

VARIABLES
    now,        \* Instant::now(), monotonic
    when,       \* when[d]: Delay.when of delay d (Never: not created)
    fut,        \* fut[t]: state of task t's async block
    queue,      \* the unbounded channel: sequence of Arc<Task>, FIFO
    execPc,     \* position of the thread that advances computations
    cur,        \* the `task` local of MiniTokio::run (None outside a Task::poll)
    curD,       \* the Delay whose poll is in progress
    cx,         \* the waker of the Context of the poll in progress
    futLock,    \* futLock[t]: Task.future's Mutex is held
    waker,      \* waker[d]: content of Delay.waker's Arc<Mutex<Waker>> (None: Delay.waker is None)
    hlock,      \* hlock[d]: holder of that Mutex: "free", "poll" or "timer"
    thr,        \* thr[d]: state of the timer thread of delay d
    panic,      \* "none", or why the executor thread panicked (the process is gone)
    cloned,     \* threads other than the executor and the timer threads hold a clone
                \* of the Waker (an Arc<Task>) of every task submitted
    \* history variables, read by no action's guard
    bornPast,   \* bornPast[d]: the deadline was already reached when d was created
    firstAdv,   \* firstAdv[d]: "none", or whether the deadline was "reached" or "ahead"
                \* when the first advance entered Delay::poll
    spawnCount, \* spawnCount[d]: timer threads ever spawned for d
    advances,   \* advances[t]: times Task::poll polled t's future
    advancing,  \* advancing[t]: advances of t's future in progress (guard counter)
    res,        \* res[d]: result of the last finished Delay::poll of d
    armedCx,    \* armedCx[d]: the context waker of the advance that spawned the timer thread
    lastCx,     \* lastCx[d]: the context waker of the last advance that passed the handle step
    invoked,    \* invoked[d]: the handle the timer thread called wake_by_ref on
    extraWakes, \* wake() calls made so far by other threads
    enq,        \* enq[t]: times t was sent to the channel
    wakes,      \* wakes[t]: wake() / wake_by_ref() calls on a handle of t
    midWake,    \* midWake[t]: "none"; "queued" once a wake hit t in the middle of an
                \* advance; "served" once t was advanced again after that
    firstRes,   \* firstRes[d]: result of the first finished Delay::poll of d
    midSpawn,   \* a task was submitted while another was being advanced and the
                \* queue was not empty
    lateWake    \* lateWake[t]: another thread woke t when its Delay was not armed
                \* and before its deadline

vars == <<now, when, fut, queue, execPc, cur, curD, cx, futLock, waker, hlock, thr,
          panic, cloned, bornPast, firstAdv, spawnCount, advances, advancing, res, armedCx, lastCx,
          invoked, extraWakes, enq, wakes, midWake, firstRes, midSpawn, lateWake>>

hist == <<bornPast, firstAdv, spawnCount, advances, advancing, res, armedCx, lastCx, invoked,
          extraWakes, enq, wakes, midWake, firstRes, midSpawn, lateWake>>

sendHist == <<enq, wakes, midWake, firstRes, lateWake>>

Start ==
    /\ now = 0
    /\ when = [d \in Ids |-> Never]
    /\ fut = [t \in Ids |-> "none"]
    /\ queue = <<>>
    /\ execPc = "recv"
    /\ cur = None
    /\ curD = None
    /\ cx = None
    /\ futLock = [t \in Ids |-> FALSE]
    /\ waker = [d \in Ids |-> None]
    /\ hlock = [d \in Ids |-> "free"]
    /\ thr = [d \in Ids |-> "none"]
    /\ panic = "none"
    /\ bornPast = [d \in Ids |-> FALSE]
    /\ firstAdv = [d \in Ids |-> "none"]
    /\ spawnCount = [d \in Ids |-> 0]
    /\ advances = [t \in Ids |-> 0]
    /\ advancing = [t \in Ids |-> 0]
    /\ res = [d \in Ids |-> "none"]
    /\ armedCx = [d \in Ids |-> None]
    /\ lastCx = [d \in Ids |-> None]
    /\ invoked = [d \in Ids |-> None]
    /\ extraWakes = 0
    /\ enq = [t \in Ids |-> 0]
    /\ wakes = [t \in Ids |-> 0]
    /\ midWake = [t \in Ids |-> "none"]
    /\ firstRes = [d \in Ids |-> "none"]
    /\ midSpawn = FALSE
    /\ lateWake = [t \in Ids |-> FALSE]

\* main: MiniTokio::new, and no thread but the executor and the timer threads
\* ever holds a Waker.
Init == Start /\ cloned = FALSE

\* A panic of the executor thread unwinds out of main: the process exits and
\* every thread stops with it.
Alive == panic = "none"

\* The clock.
Tick ==
    /\ Alive
    /\ now < MaxTime
    /\ now' = now + 1
    /\ UNCHANGED <<when, fut, queue, execPc, cur, curD, cx, futLock, waker, hlock, thr, panic>>
    /\ UNCHANGED hist
    /\ UNCHANGED cloned

\* ---------------------------------------------------------------- helpers

InQueue(t) == \E i \in 1..Len(queue) : queue[i] = t

\* Entries of q that are task t.
Occ(q, t) == Cardinality({i \in 1..Len(q) : q[i] = t})

\* The channel holds one message at most (mutation of CanSend).
CanSendBounded(t) == Len(queue) < 1

\* A send waits for the future's guard of the task sent (mutation of CanSend).
CanSendUnlocked(t) == ~futLock[t]

\* Sender::send on the channel of channel::unbounded(): it never waits for
\* room, and Task::schedule / Task::spawn take no lock before it.
CanSend(t) == TRUE

\* One wake sends the task twice (mutation of Sent).
SentTwice(q, t) == Append(Append(q, t), t)

\* Task::schedule / Task::spawn: one send of the Arc<Task> to the channel.
Sent(q, t) == Append(q, t)

\* recv() hands out the newest message (mutation of Front).
FrontNewest(q) == q[Len(q)]

\* Receiver::recv: the message handed out is the oldest one.
Front(q) == Head(q)

\* recv() drops the messages behind the one it hands out (mutation of Rest).
RestCleared(q) == <<>>

\* Receiver::recv: the other messages stay queued, in order.
Rest(q) == Tail(q)

\* Waker::will_wake: two Task-bound wakers wake the same task.
WillWake(stored, c) == stored = c

\* Every advance takes the unarmed branch (mutation of Unarmed).
UnarmedAlways(d) == TRUE

\* Delay::poll, `if let Some(waker) = &self.waker`: the Delay is unarmed when
\* it stores no handle.
Unarmed(d) == waker[d] = None

\* The stored waker is never replaced (mutation of Stored).
StoredKept(old, c) == old

\* Delay::poll, the armed branch: the stored waker is replaced by the
\* context's unless it already wakes the same task.
Stored(old, c) == IF ~WillWake(old, c) THEN c ELSE old

\* The deadline itself does not count as elapsed (mutation of Elapsed).
ElapsedStrict(d) == now > when[d]

\* The time check always succeeds (mutation of Elapsed).
ElapsedAlways(d) == TRUE

\* Delay::poll, `Instant::now() >= self.when`.
Elapsed(d) == now >= when[d]

\* The timer thread does not wait for the deadline (mutation of SleepOver).
SleepOverAlways(d) == TRUE

\* The timer thread: `if now < when { thread::sleep(when - now) }` returns
\* at an instant at or after `when`.
SleepOver(d) == now >= when[d]

\* The future's guard is never dropped (mutation of GuardDropped).
GuardKept(t) == futLock

\* Task::poll: the MutexGuard on Task.future is dropped when poll returns.
GuardDropped(t) == [futLock EXCEPT ![t] = FALSE]

\* The shared Arc<Mutex<Waker>> of delay d is still referenced: by the Delay
\* (dropped with the async block's locals when the block returns) or by the
\* timer thread (until it ends).
SlotAlive(d) ==
    /\ waker[d] # None
    /\ (fut[d] # "returned" \/ thr[d] \in {"sleeping", "locked", "woke"})

\* Arc<Task> t is still referenced: by a queue entry, by the run loop's
\* `task` local, by a stored Waker, or by a Waker clone another thread holds.
TaskAlive(t) ==
    /\ fut[t] # "none"
    /\ (InQueue(t) \/ cur = t \/ cloned \/ \E d \in Ids : SlotAlive(d) /\ waker[d] = t)

\* Senders of the channel: MiniTokio.sender plus Task.executor of every
\* live Task.
SenderCount == 1 + Cardinality({t \in Ids : TaskAlive(t)})

\* crossbeam Receiver::recv returns Err only when the channel is empty and
\* every Sender has been dropped.
Disconnected == SenderCount = 0

\* ---------------------------------------------------------------- executor

\* MiniTokio::spawn -> Task::spawn: wrap `async { Delay { .. }.await }` in a
\* Task and send it; the block has not run, so no Delay exists yet.  Tasks
\* take the ids 1, 2, ... in submission order.
Spawn(t) ==
    /\ Alive
    /\ fut[t] = "none"
    /\ \A u \in Ids : u < t => fut[u] # "none"
    /\ fut' = [fut EXCEPT ![t] = "unresumed"]
    /\ CanSend(t)
    /\ queue' = Sent(queue, t)
    /\ enq' = [enq EXCEPT ![t] = @ + Occ(queue', t) - Occ(queue, t)]
    /\ UNCHANGED <<now, when, execPc, cur, curD, cx, futLock, waker, hlock, thr, panic>>
    /\ UNCHANGED <<bornPast, firstAdv, spawnCount, advances, advancing, res, armedCx, lastCx, invoked, extraWakes>>
    /\ UNCHANGED <<wakes, midWake, firstRes, lateWake>>
    /\ midSpawn' = (midSpawn \/ (cur # None /\ queue # <<>>))
    /\ UNCHANGED cloned

\* MiniTokio::run, `while let Ok(task) = self.scheduled.recv()`: take the
\* head of the queue; block while it is empty and a Sender lives; leave the
\* loop when it is empty and disconnected.
Recv ==
    /\ Alive
    /\ execPc = "recv"
    /\ IF queue # <<>>
       THEN /\ cur' = Front(queue)
            /\ queue' = Rest(queue)
            /\ execPc' = "task_poll"
       ELSE /\ Disconnected
            /\ execPc' = "returned"
            /\ UNCHANGED <<cur, queue>>
    /\ UNCHANGED <<now, when, fut, curD, cx, futLock, waker, hlock, thr, panic>>
    /\ UNCHANGED hist
    /\ UNCHANGED cloned

\* Task::poll up to the call of the future's poll: build the waker, try_lock
\* the future (unwrap panics if it is held), poll the async block (an async
\* block polled after it returned panics), which polls its Delay.  The first
\* poll of the block builds its `Delay { when, waker: None }`: main computes
\* `when` as now + 10 ms there; here the deadline is any instant, before or
\* after the clock at that moment.
TaskPoll ==
    /\ Alive
    /\ execPc = "task_poll"
    /\ IF futLock[cur]
       THEN /\ panic' = "try_lock"
            /\ execPc' = "panicked"
            /\ UNCHANGED <<fut, curD, cx, futLock, advances, advancing, midWake>>
       ELSE IF fut[cur] = "returned"
       THEN /\ panic' = "resumed"
            /\ execPc' = "panicked"
            /\ advances' = [advances EXCEPT ![cur] = @ + 1]
            /\ UNCHANGED <<fut, curD, cx, futLock, advancing, midWake>>
       ELSE /\ futLock' = [futLock EXCEPT ![cur] = TRUE]
            /\ fut' = [fut EXCEPT ![cur] = "awaiting"]
            /\ curD' = cur
            /\ cx' = cur
            /\ execPc' = "delay_enter"
            /\ advances' = [advances EXCEPT ![cur] = @ + 1]
            /\ advancing' = [advancing EXCEPT ![cur] = @ + 1]
            /\ midWake' = [midWake EXCEPT ![cur] = IF @ = "queued" THEN "served" ELSE @]
            /\ UNCHANGED panic
    /\ IF ~futLock[cur] /\ fut[cur] = "unresumed"
       THEN \E D \in Instants :
                /\ when' = [when EXCEPT ![cur] = D]
                /\ bornPast' = [bornPast EXCEPT ![cur] = (now >= D)]
       ELSE UNCHANGED <<when, bornPast>>
    /\ UNCHANGED <<now, queue, cur, waker, hlock, thr>>
    /\ UNCHANGED <<firstAdv, spawnCount, res, armedCx, lastCx, invoked, extraWakes>>
    /\ UNCHANGED <<enq, wakes, firstRes, lateWake>>
    /\ UNCHANGED midSpawn
    /\ UNCHANGED cloned

\* ---------------------------------------------------------------- Delay::poll

\* Delay::poll, first part.  Unarmed: store the context's waker in a new
\* Arc<Mutex<Waker>> and spawn the timer thread.  Armed: lock the stored
\* waker (blocks while the timer thread holds the lock).
DelayEnter ==
    /\ Alive
    /\ execPc = "delay_enter"
    /\ IF Unarmed(curD)
       THEN /\ waker' = [waker EXCEPT ![curD] = cx]
            /\ thr' = [thr EXCEPT ![curD] = "sleeping"]
            /\ spawnCount' = [spawnCount EXCEPT ![curD] = @ + 1]
            /\ armedCx' = [armedCx EXCEPT ![curD] = cx]
            /\ lastCx' = [lastCx EXCEPT ![curD] = cx]
            /\ execPc' = "delay_check"
            /\ UNCHANGED hlock
       ELSE /\ hlock[curD] = "free"
            /\ hlock' = [hlock EXCEPT ![curD] = "poll"]
            /\ execPc' = "delay_locked"
            /\ UNCHANGED <<waker, thr, spawnCount, armedCx, lastCx>>
    /\ firstAdv' = [firstAdv EXCEPT ![curD] =
                       IF @ # "none" THEN @
                       ELSE IF now >= when[curD] THEN "reached" ELSE "ahead"]
    /\ UNCHANGED <<now, when, fut, queue, cur, curD, cx, futLock, panic>>
    /\ UNCHANGED <<bornPast, advances, advancing, res, invoked, extraWakes>>
    /\ UNCHANGED sendHist
    /\ UNCHANGED midSpawn
    /\ UNCHANGED cloned

\* Delay::poll, armed branch under the lock: replace the stored waker if it
\* would not wake the context's task, then drop the guard.
DelayLocked ==
    /\ Alive
    /\ execPc = "delay_locked"
    /\ waker' = [waker EXCEPT ![curD] = Stored(@, cx)]
    /\ lastCx' = [lastCx EXCEPT ![curD] = cx]
    /\ hlock' = [hlock EXCEPT ![curD] = "free"]
    /\ execPc' = "delay_check"
    /\ UNCHANGED <<now, when, fut, queue, cur, curD, cx, futLock, thr, panic>>
    /\ UNCHANGED <<bornPast, firstAdv, spawnCount, advances, advancing, res, armedCx, invoked,
                   extraWakes>>
    /\ UNCHANGED sendHist
    /\ UNCHANGED midSpawn
    /\ UNCHANGED cloned

\* Delay::poll, the time check and the return to the caller.  Inside a task
\* the caller is the async block: Ready completes it (its Delay is dropped),
\* Pending leaves it awaiting, and Task::poll has still to return.  A bare
\* Delay returns to the thread that called poll.
DelayCheck ==
    /\ Alive
    /\ execPc = "delay_check"
    /\ res' = [res EXCEPT ![curD] = IF Elapsed(curD) THEN "Ready" ELSE "Pending"]
    /\ IF cur # None
       THEN /\ fut' = [fut EXCEPT ![cur] = IF Elapsed(curD) THEN "returned" ELSE "awaiting"]
            /\ execPc' = "task_ret"
            /\ UNCHANGED <<curD, cx>>
       ELSE /\ curD' = None
            /\ cx' = None
            /\ execPc' = "recv"
            /\ UNCHANGED fut
    /\ UNCHANGED <<now, when, queue, cur, futLock, waker, hlock, thr, panic>>
    /\ firstRes' = [firstRes EXCEPT ![curD] = IF @ = "none" THEN res'[curD] ELSE @]
    /\ UNCHANGED <<bornPast, firstAdv, spawnCount, advances, advancing, armedCx, lastCx, invoked,
                   extraWakes>>
    /\ UNCHANGED <<enq, wakes, midWake, lateWake>>
    /\ UNCHANGED midSpawn
    /\ UNCHANGED cloned

\* The end of Task::poll and of the loop body of MiniTokio::run: the guard on
\* Task.future and the `task` local are dropped.
TaskReturn ==
    /\ Alive
    /\ execPc = "task_ret"
    /\ futLock' = GuardDropped(cur)
    /\ advancing' = [advancing EXCEPT ![cur] = @ - 1]
    /\ cur' = None
    /\ curD' = None
    /\ cx' = None
    /\ execPc' = "recv"
    /\ UNCHANGED <<now, when, fut, queue, waker, hlock, thr, panic>>
    /\ UNCHANGED <<bornPast, firstAdv, spawnCount, advances, res, armedCx, lastCx, invoked,
                   extraWakes>>
    /\ UNCHANGED sendHist
    /\ UNCHANGED midSpawn
    /\ UNCHANGED cloned

\* ---------------------------------------------------------------- timer thread

\* The timer thread after its sleep: `waker.lock().unwrap()`.
ThrLock(d) ==
    /\ Alive
    /\ thr[d] = "sleeping"
    /\ SleepOver(d)
    /\ hlock[d] = "free"
    /\ hlock' = [hlock EXCEPT ![d] = "timer"]
    /\ thr' = [thr EXCEPT ![d] = "locked"]
    /\ UNCHANGED <<now, when, fut, queue, execPc, cur, curD, cx, futLock, waker, panic>>
    /\ UNCHANGED hist
    /\ UNCHANGED cloned

\* The handle the timer thread wakes: the content of the shared slot, read
\* under the lock.
ThrHandle(d) == waker[d]

\* `waker.wake_by_ref()` -> Task::wake_by_ref -> Task::schedule: send the
\* task to the channel, with the handle lock still held.
ThrFire(d) ==
    /\ Alive
    /\ thr[d] = "locked"
    /\ CanSend(ThrHandle(d))
    /\ queue' = Sent(queue, ThrHandle(d))
    /\ enq' = [enq EXCEPT ![ThrHandle(d)] = @ + Occ(queue', ThrHandle(d)) - Occ(queue, ThrHandle(d))]
    /\ wakes' = [wakes EXCEPT ![ThrHandle(d)] = @ + 1]
    /\ midWake' = [midWake EXCEPT ![ThrHandle(d)] =
                      IF @ = "none" /\ advancing[ThrHandle(d)] > 0 THEN "queued" ELSE @]
    /\ invoked' = [invoked EXCEPT ![d] = ThrHandle(d)]
    /\ thr' = [thr EXCEPT ![d] = "woke"]
    /\ UNCHANGED <<now, when, fut, execPc, cur, curD, cx, futLock, waker, hlock, panic>>
    /\ UNCHANGED <<bornPast, firstAdv, spawnCount, advances, advancing, res, armedCx, lastCx,
                   extraWakes, firstRes, lateWake>>
    /\ UNCHANGED midSpawn
    /\ UNCHANGED cloned

\* The end of the timer thread's closure: the guard on the handle is dropped
\* and the thread ends.
ThrExit(d) ==
    /\ Alive
    /\ thr[d] = "woke"
    /\ hlock' = [hlock EXCEPT ![d] = "free"]
    /\ thr' = [thr EXCEPT ![d] = "done"]
    /\ UNCHANGED <<now, when, fut, queue, execPc, cur, curD, cx, futLock, waker, panic>>
    /\ UNCHANGED hist
    /\ UNCHANGED cloned

\* ---------------------------------------------------------------- specifications

\* The program: computations are submitted at any time, one executor thread
\* runs MiniTokio::run, timer threads run beside it.
Next ==
    \/ Tick
    \/ \E t \in Ids : Spawn(t)
    \/ Recv
    \/ TaskPoll
    \/ DelayEnter
    \/ DelayLocked
    \/ DelayCheck
    \/ TaskReturn
    \/ \E d \in Ids : ThrLock(d)
    \/ \E d \in Ids : ThrFire(d)
    \/ \E d \in Ids : ThrExit(d)

Spec == Init /\ [][Next]_vars

\* The clock advances, the executor thread and every timer thread are
\* scheduled (OS threads); submission is up to the caller.
Fairness ==
    /\ WF_vars(Tick)
    /\ WF_vars(Recv)
    /\ WF_vars(TaskPoll)
    /\ WF_vars(DelayEnter)
    /\ WF_vars(DelayLocked)
    /\ WF_vars(DelayCheck)
    /\ WF_vars(TaskReturn)
    /\ \A d \in Ids : WF_vars(ThrLock(d))
    /\ \A d \in Ids : WF_vars(ThrFire(d))
    /\ \A d \in Ids : WF_vars(ThrExit(d))

FairSpec == Init /\ [][Next]_vars /\ Fairness

\* ---------------------------------------------------------------- other callers

\* A thread other than a timer thread calls wake() on a clone of task t's
\* Waker: Task::wake_by_ref -> Task::schedule sends the task.
ExternalWake(t) ==
    /\ Alive
    /\ extraWakes < MaxExtraWakes
    /\ fut[t] # "none"
    /\ CanSend(t)
    /\ queue' = Sent(queue, t)
    /\ extraWakes' = extraWakes + 1
    /\ enq' = [enq EXCEPT ![t] = @ + Occ(queue', t) - Occ(queue, t)]
    /\ wakes' = [wakes EXCEPT ![t] = @ + 1]
    /\ midWake' = [midWake EXCEPT ![t] = IF @ = "none" /\ advancing[t] > 0 THEN "queued" ELSE @]
    /\ lateWake' = [lateWake EXCEPT ![t] = @ \/ ~(waker[t] # None /\ now < when[t])]
    /\ UNCHANGED <<now, when, fut, execPc, cur, curD, cx, futLock, waker, hlock, thr, panic>>
    /\ UNCHANGED <<bornPast, firstAdv, spawnCount, advances, advancing, res, armedCx, lastCx, invoked>>
    /\ UNCHANGED firstRes
    /\ UNCHANGED midSpawn
    /\ UNCHANGED cloned

\* The other threads hold a clone of each task's Waker from its submission on,
\* and keep it.
WakeInit == Start /\ cloned = TRUE

\* The program with wake() also called from arbitrary other threads.
WakeNext ==
    \/ Tick
    \/ \E t \in 1..MaxWoken : Spawn(t)
    \/ Recv
    \/ TaskPoll
    \/ DelayEnter
    \/ DelayLocked
    \/ DelayCheck
    \/ TaskReturn
    \/ \E d \in Ids : ThrLock(d)
    \/ \E d \in Ids : ThrFire(d)
    \/ \E d \in Ids : ThrExit(d)
    \/ \E t \in Ids : ExternalWake(t)

WakeSpec == WakeInit /\ [][WakeNext]_vars

\* A caller creates a bare `Delay { when: D, waker: None }`, owned by no task.
NewDelay(d, D) ==
    /\ when[d] = Never
    /\ \A u \in Ids : u < d => when[u] # Never
    /\ when' = [when EXCEPT ![d] = D]
    /\ bornPast' = [bornPast EXCEPT ![d] = (now >= D)]
    /\ UNCHANGED <<now, fut, queue, execPc, cur, curD, cx, futLock, waker, hlock, thr, panic>>
    /\ UNCHANGED <<firstAdv, spawnCount, advances, advancing, res, armedCx, lastCx, invoked, extraWakes>>
    /\ UNCHANGED sendHist
    /\ UNCHANGED midSpawn
    /\ UNCHANGED cloned

\* A caller advances a bare Delay directly: Delay::poll(d, cx) with a
\* Context whose waker is h.  Advances of one Delay never overlap
\* (Pin<&mut Self>), and a Future is not polled again after Ready.
CallPoll(d, h) ==
    /\ execPc = "recv"
    /\ when[d] # Never
    /\ fut[d] = "none"
    /\ res[d] # "Ready"
    /\ curD' = d
    /\ cx' = h
    /\ execPc' = "delay_enter"
    /\ UNCHANGED <<now, when, fut, queue, cur, futLock, waker, hlock, thr, panic>>
    /\ UNCHANGED hist
    /\ UNCHANGED cloned

\* Delay alone: bare Delays advanced under arbitrary handles, their timer
\* threads and the clock.  Woken handles pile up in the channel.
DelayNext ==
    \/ Tick
    \/ \E d \in 1..MaxBare, D \in Instants : NewDelay(d, D)
    \/ \E d \in Ids, h \in Ids : CallPoll(d, h)
    \/ DelayEnter
    \/ DelayLocked
    \/ DelayCheck
    \/ \E d \in Ids : ThrLock(d)
    \/ \E d \in Ids : ThrFire(d)
    \/ \E d \in Ids : ThrExit(d)

DelaySpec == Init /\ [][DelayNext]_vars

\* The caller keeps advancing an unresolved Delay; clock and timer threads
\* are scheduled.
DelayFairness ==
    /\ WF_vars(Tick)
    /\ WF_vars(DelayEnter)
    /\ WF_vars(DelayLocked)
    /\ WF_vars(DelayCheck)
    /\ \A d \in Ids : WF_vars(ThrLock(d))
    /\ \A d \in Ids : WF_vars(ThrFire(d))
    /\ \A d \in Ids : WF_vars(ThrExit(d))

DelayFairSpec == Init /\ [][DelayNext]_vars /\ DelayFairness

\* ---------------------------------------------------------------- claims

Spawned(t) == fut[t] # "none"
Resolved(t) == fut[t] = "returned"
TimerPending(d) == thr[d] \in {"sleeping", "locked"}
TimerRunning(d) == thr[d] \in {"sleeping", "locked", "woke"}
Fired(d) == thr[d] \in {"woke", "done"}

\* C1: every task spawned with MiniTokio::spawn that awaits a Delay is
\* eventually advanced by run() to a poll that returns Ready, whatever its
\* deadline.
C1_TimerTaskResolves == \A t \in Ids : Spawned(t) ~> Resolved(t)

\* A step of the executor thread.
ExecStep == Recv \/ TaskPoll \/ DelayEnter \/ DelayLocked \/ DelayCheck \/ TaskReturn

\* C2: once every submitted computation has resolved and no wake handle is
\* pending, the run loop is not stuck: run() has returned or the executor
\* thread can take a step (to drain the queue or to leave the loop).
C2_RunTerminates ==
    ( /\ Alive
      /\ \E t \in Ids : Spawned(t)
      /\ \A t \in Ids : Spawned(t) => Resolved(t)
      /\ \A d \in Ids : ~TimerRunning(d) )
    => (execPc = "returned" \/ ENABLED ExecStep)

\* C3: once a task's computation has returned Ready, the executor never
\* advances that task again.
C3_SingleResolve ==
    [][\A t \in Ids : Resolved(t) => advances'[t] = advances[t]]_vars

\* C4: under any interleaving of wake() calls on a task, at most one advance
\* of its computation is in progress, and try_lock in Task::poll never finds
\* the future locked.
C4_NoDoubleAdvance ==
    /\ \A t \in Ids : advancing[t] <= 1
    /\ panic # "try_lock"

\* C4 witness: a task woken twice by other threads has been advanced twice
\* and is in the middle of an advance while another wake of it is queued.
C4_Witness ==
    \E t \in Ids :
        /\ extraWakes >= 2
        /\ advances[t] >= 2
        /\ advancing[t] = 1
        /\ InQueue(t)

\* The step in which Delay::poll of the Delay in hand returns.
PollReturns == execPc = "delay_check" /\ execPc' # "delay_check"

\* The step in which Task::poll returns to the run loop.
AdvanceEnds == execPc = "task_ret" /\ execPc' = "recv"

\* The step in which the timer thread of d calls wake_by_ref.
Fires(d) == thr[d] = "locked" /\ thr'[d] = "woke"

\* C5: whenever Delay::poll returns Pending, the instance's timer thread
\* exists and has not fired; the thread fires only at or after the deadline,
\* on the handle stored then; and after a Pending the thread does fire.
C5_SuspendResume ==
    /\ [][/\ (PollReturns /\ res'[curD] = "Pending")
              => (TimerPending(curD) /\ invoked[curD] = None)
          /\ \A d \in Ids : Fires(d) => (now >= when[d] /\ invoked'[d] = waker[d])]_vars
    /\ \A d \in Ids : (res[d] = "Pending") ~> (invoked[d] # None)

\* C6: a Delay whose deadline is already reached when it is first advanced
\* spawns no timer thread.
C6_NoThreadWhenElapsed ==
    \A d \in Ids : firstAdv[d] = "reached" => spawnCount[d] = 0

\* C7: a Delay whose deadline is already reached at creation returns Ready
\* on its first advance and never returns Pending.
C7_PastDeadlineReadyAtOnce ==
    \A d \in Ids : bornPast[d] => res[d] \in {"none", "Ready"}

\* C7 witness: a Delay created after its deadline has been advanced.
C7_Witness ==
    \E d \in Ids : bornPast[d] /\ res[d] = "Ready" /\ advances[d] = 1

\* C8: a timer thread is spawned at most once per Delay, and an advance of
\* a Delay that already stores a handle spawns none.
C8_OneTimerThread ==
    /\ [](\A d \in Ids : spawnCount[d] <= 1)
    /\ [][\A d \in Ids : waker[d] # None => spawnCount'[d] = spawnCount[d]]_vars

\* C8 witness: an armed Delay that returned Pending has been advanced again
\* under another handle, and still has its one thread.
C8_Witness ==
    \E d \in Ids :
        /\ res[d] = "Pending"
        /\ lastCx[d] # armedCx[d]
        /\ execPc = "recv"
        /\ spawnCount[d] = 1

\* C9: the timer thread invokes and enqueues the handle of the most recent
\* advance that stored one before it fired, so after a Pending the task woken
\* is the one that polled last.
C9_HandleReplaceSafety ==
    /\ [][\A d \in Ids : Fires(d) =>
            /\ invoked'[d] = lastCx[d]
            /\ queue' = Append(queue, lastCx[d])]_vars
    /\ [](\A d \in Ids :
            (Fired(d) /\ res[d] = "Pending" /\ curD # d) => invoked[d] = lastCx[d])

\* C9 witness: the thread has fired on a handle other than the one it was
\* spawned under, after the Delay returned Pending under that later handle.
C9_Witness ==
    \E d \in Ids :
        /\ thr[d] = "done"
        /\ res[d] = "Pending"
        /\ invoked[d] # armedCx[d]
        /\ invoked[d] = lastCx[d]

\* C10: Delay::poll returns Ready exactly when the clock has reached the
\* deadline at its check, so no awaiting computation completes before it.
C10_NeverEarly ==
    /\ [][PollReturns => (res'[curD] = "Ready" <=> now >= when[curD])]_vars
    /\ [](\A t \in Ids : Resolved(t) => now >= when[t])

\* C10 witness: one task has completed while a Delay has returned Pending.
C10_Witness ==
    /\ \E t \in Ids : Resolved(t)
    /\ \E d \in Ids : res[d] = "Pending" /\ now < when[d]

\* C11: a task enters the ready queue only by being spawned or by a wake on
\* its handle, once per spawn and once per wake; an advance that returns
\* leaves the queue as it was.
C11_WakeDrivenQueue ==
    /\ [](\A t \in Ids : enq[t] = (IF Spawned(t) THEN 1 ELSE 0) + wakes[t])
    /\ [][(PollReturns \/ AdvanceEnds) => queue' = queue]_vars
    /\ [][\A t \in Ids : Occ(queue', t) > Occ(queue, t) =>
            \/ ~Spawned(t) /\ fut'[t] = "unresumed"
            \/ wakes'[t] = wakes[t] + 1]_vars

\* C11 witness: a task woken twice has been enqueued three times, and after
\* an advance that returned Pending it is not in the queue.
C11_Witness ==
    \E t \in Ids :
        /\ wakes[t] = 2
        /\ enq[t] = 3
        /\ res[t] = "Pending"
        /\ execPc = "recv"
        /\ ~InQueue(t)

\* C12: when the advance of one task panics, the run loop keeps serving the
\* entries of the ready queue.
C12_FailureIsolation ==
    (panic # "none" /\ queue # <<>>) => ENABLED ExecStep

\* C13: with every task of the workload spawned, all of them resolve and the
\* system settles for good with the ready queue empty and every timer
\* thread ended.
C13_ManyTimersSettle ==
    (\A t \in Ids : Spawned(t))
        ~> [](/\ \A t \in Ids : Resolved(t)
              /\ queue = <<>>
              /\ \A d \in Ids : ~TimerRunning(d))

\* C14: in every state the running program reaches, MiniTokio::spawn of the
\* next task can complete, a wake() of any submitted task called from any
\* thread can complete, and a timer thread holding the handle lock can complete
\* its wake, whatever the queue holds and whether or not a task (the woken one
\* included) is being advanced; and every step that sends a task is one push:
\* it appends the task and touches neither a future guard nor the run loop.
C14_SpawnWakeNeverBlock ==
    /\ [](Alive =>
            /\ \A t \in Ids :
                (fut[t] = "none" /\ \A u \in Ids : u < t => fut[u] # "none")
                    => ENABLED Spawn(t)
            /\ \A t \in Ids : Spawned(t) => ENABLED ExternalWake(t)
            /\ \A d \in Ids : thr[d] = "locked" => ENABLED ThrFire(d))
    /\ [][\A t \in Ids : enq'[t] # enq[t] =>
            /\ enq'[t] = enq[t] + 1
            /\ queue' = Append(queue, t)
            /\ futLock' = futLock
            /\ execPc' = execPc
            /\ cur' = cur]_vars

\* C14 witness: a task was submitted while another was being advanced and the
\* queue was not empty, and a wake of the task being advanced completed during
\* that advance: its guard is held and the queue holds both entries.
C14_Witness ==
    /\ midSpawn
    /\ \E t \in Ids :
        /\ futLock[t]
        /\ cur = t
        /\ midWake[t] = "queued"
        /\ InQueue(t)
        /\ Len(queue) >= 2

\* C15: a wake that arrives while its task is being advanced only appends the
\* task to the queue; an advance of a task starts only when none of it is in
\* progress; and a queue entry leaves only by the run loop taking it to advance.
C15_WakeDuringAdvance ==
    /\ [][\A t \in Ids : (advancing[t] > 0 /\ wakes'[t] = wakes[t] + 1) =>
            /\ queue' = Append(queue, t)
            /\ advancing' = advancing
            /\ advances' = advances
            /\ futLock' = futLock
            /\ execPc' = execPc]_vars
    /\ [][\A t \in Ids : advances'[t] # advances[t] => advancing[t] = 0]_vars
    /\ [][\A t \in Ids : Occ(queue', t) < Occ(queue, t) =>
            /\ Occ(queue', t) = Occ(queue, t) - 1
            /\ execPc = "recv"
            /\ execPc' = "task_poll"
            /\ cur' = t]_vars

\* C15 witness: a task woken in the middle of an advance is being advanced
\* again, after that advance returned Pending.
C15_Witness ==
    \E t \in Ids :
        /\ midWake[t] = "served"
        /\ advancing[t] = 1
        /\ res[t] = "Pending"

\* C16: for a task whose first advance returned Pending and whose extra wakes
\* were all invoked while its Delay was armed and before the deadline, the
\* extra wakes are harmless: no further thread, the stored handle unchanged,
\* and the task resolves as with the timer's wake alone, with no poll of
\* the finished computation.
C16_RedundantWakesHarmless ==
    \A t \in Ids :
        (firstRes[t] = "Pending" /\ ~lateWake[t]) =>
            /\ spawnCount[t] = 1
            /\ waker[t] = armedCx[t]
            /\ panic # "none" => cur # t

\* C17: the timer thread of a Delay calls wake once, at or after the
\* deadline: it never fires early, it does fire, and once it has fired it
\* never fires again.
C17_TimerFiresOnce ==
    /\ [][\A d \in Ids : Fires(d) => (now >= when[d] /\ invoked[d] = None)]_vars
    /\ [][\A d \in Ids : Fired(d) =>
            (Fired(d)' /\ invoked'[d] = invoked[d])]_vars
    /\ \A d \in Ids : (thr[d] = "sleeping") ~> Fired(d)

\* C18: run() takes the oldest entry of the queue, one per iteration, and
\* entries are only ever added at the back.
C18_FifoQueue ==
    /\ [][(execPc = "recv" /\ execPc' = "task_poll") =>
            (cur' = Head(queue) /\ queue' = Tail(queue))]_vars
    /\ [][queue' # queue =>
            \/ execPc = "recv" /\ execPc' = "task_poll"
            \/ \E t \in Ids : queue' = Append(queue, t)]_vars

\* C18 witness: of two freshly spawned tasks the one submitted first is in
\* hand and the later one is still queued.
C18_Witness ==
    \E t \in Ids :
        /\ execPc = "task_poll"
        /\ cur = t
        /\ Len(queue) >= 1
        /\ queue[1] > t
        /\ advances[t] = 0
        /\ advances[queue[1]] = 0

\* C19: no deadlock between the executor thread and a timer thread: a timer
\* thread holding the handle lock can always fire, the executor holding it
\* can always go on, and whoever waits for the handle lock waits for a
\* holder that can release it.
C19_NoLockDeadlock ==
    Alive =>
        /\ \A d \in Ids : thr[d] = "locked" => ENABLED ThrFire(d)
        /\ \A d \in Ids : thr[d] = "woke" => ENABLED ThrExit(d)
        /\ execPc = "delay_locked" => ENABLED DelayLocked
        /\ execPc = "delay_check" => ENABLED DelayCheck
        /\ execPc = "task_ret" => ENABLED TaskReturn
        /\ (execPc = "delay_enter" /\ ~ENABLED DelayEnter)
              => (hlock[curD] = "timer" /\ (ENABLED ThrFire(curD) \/ ENABLED ThrExit(curD)))
        /\ \A d \in Ids : (thr[d] = "sleeping" /\ SleepOver(d) /\ ~ENABLED ThrLock(d))
              => (hlock[d] = "poll" /\ ENABLED DelayLocked)

\* C19 witness: the executor, holding a task's future guard, waits for the
\* handle lock while the timer thread, which has sent its wake, still holds it.
C19_Witness ==
    /\ execPc = "delay_enter"
    /\ cur # None
    /\ futLock[cur]
    /\ ~Unarmed(curD)
    /\ hlock[curD] = "timer"
    /\ thr[curD] = "woke"

\* C20: a poll of a Delay that returns after the Delay's timer thread has
\* fired returns Ready, and the thread has fired only with the deadline reached.
C20_WakeEnablesProgress ==
    /\ [][(PollReturns /\ Fired(curD)) => res'[curD] = "Ready"]_vars
    /\ [](\A d \in Ids : invoked[d] # None => now >= when[d])

\* C20 witness: a task whose first advance returned Pending was advanced
\* again after its timer thread fired, and that advance returned Ready.
C20_Witness ==
    \E t \in Ids :
        /\ firstRes[t] = "Pending"
        /\ thr[t] = "done"
        /\ advances[t] = 2
        /\ res[t] = "Ready"

====
